---- MODULE Spec2Model ----
(***************************************************************************)
(* Model of app/main.py: the challenge-response server (ZKServer, ZKUser), *)
(* the time seed (time_seed) and the proof derivation (tokenize,           *)
(* round_sig).                                                             *)
(*                                                                         *)
(* Real numbers are modelled in fixed point: a value x is the integer      *)
(* x * Scale.  The elementary functions are evaluated on that grid, so a   *)
(* token of the model carries four decimals where the program carries a    *)
(* double; the structure of the computation (digit loop, mantissa of       *)
(* a * seed^b, sin on even and tan on odd positions, rounding to           *)
(* KEY_LENGTH significant digits) is the program's.                        *)
(***************************************************************************)
EXTENDS Integers, Sequences, FiniteSets, TLC

\* ---------------------------------------------------------------- bounds
MaxKeyIdx == 1     \* keys are drawn from KeyLow + k * 1111, k in 0..MaxKeyIdx
MaxTimes == 4      \* the clock ranges over the first MaxTimes instants of TimeLine
MaxRequests == 4   \* requests the worker threads serve in the thread-level specification
MaxCalcSeed == 3   \* /calculate-tokenized is given seeds -MaxCalcSeed..MaxCalcSeed

\* ------------------------------------------------------- program constants
KEY_LENGTH == 4

None == <<>>
Some(x) == <<x>>

\* ------------------------------------------------------ fixed-point reals
ScaleDigits == 4
Scale == 10^ScaleDigits
Pi == 31416
HalfPi == 15708
TwoPi == 62832

Abs(x) == IF x < 0 THEN -x ELSE x
Sign(x) == IF x < 0 THEN -1 ELSE 1

RECURSIVE NumDigits(_)
NumDigits(n) == IF n < 10 THEN 1 ELSE 1 + NumDigits(n \div 10)

\* str(n) digit by digit, most significant first (n >= 0)
RECURSIVE Digits(_)
Digits(n) == IF n < 10 THEN <<n>> ELSE Append(Digits(n \div 10), n % 10)

\* bring a positive fixed-point number into [Scale, 10*Scale)
RECURSIVE Norm(_)
Norm(x) ==
  IF x >= 10 * Scale THEN Norm(x \div 10)
  ELSE IF x < Scale THEN Norm(x * 10)
  ELSE x

\* mantissa of |seed|^b, seed # 0
RECURSIVE MantPow(_, _)
MantPow(s, b) == IF b = 0 THEN Scale ELSE Norm(MantPow(s, b - 1) * s)

\* exponent of the prime p in n, and n without its factors p (n > 0)
RECURSIVE Valuation(_, _)
Valuation(n, p) == IF n % p = 0 THEN 1 + Valuation(n \div p, p) ELSE 0
RECURSIVE Strip(_, _)
Strip(n, p) == IF n % p = 0 THEN Strip(n \div p, p) ELSE n

\* a * s^b is an exact power of ten (a, s > 0); Pow10Exp is its exponent
IsPow10(a, s, b) ==
  /\ Strip(Strip(a, 2), 5) = 1
  /\ (b = 0 \/ Strip(Strip(s, 2), 5) = 1)
  /\ Valuation(a, 2) + b * Valuation(s, 2) = Valuation(a, 5) + b * Valuation(s, 5)
Pow10Exp(a, s, b) == Valuation(a, 2) + b * Valuation(s, 2)

\* exponents k for which the double math.log(10**k, 10) = log(10**k)/log(10)
\* comes out one ulp below k, so that (log % 1) is 0.999... and not 0
LogBelowInteger == {3, 6, 9, 12, 13, 15, 18, 21, 23, 24, 26, 27, 29, 30, 31, 33, 36, 39}

\* val = 10 ** (math.log(tval, 10) % 1) for tval = a * seed^b > 0
\* (seed ** 0 is 1, also for seed = 0)
MantissaVal(a, seed, b) ==
  LET base == IF b = 0 THEN 1 ELSE Abs(seed)
  IN IF IsPow10(a, base, b)
     THEN IF Pow10Exp(a, base, b) \in LogBelowInteger THEN 10 * Scale ELSE Scale
     ELSE Norm(a * MantPow(base, b))

\* Taylor series on [0, HalfPi], term by term
RECURSIVE Series(_, _, _, _)
Series(term, y2, k, last) ==
  IF k > last THEN 0
  ELSE term - Series(((term * y2) \div Scale) \div (k * (k + 1)), y2, k + 2, last)

SinSeries(y) == Series(y, (y * y) \div Scale, 2, 10)
CosSeries(y) == Series(Scale, (y * y) \div Scale, 1, 11)

Sin(x) ==
  LET r == x % TwoPi
      sgn == IF r >= Pi THEN -1 ELSE 1
      r1 == IF r >= Pi THEN r - Pi ELSE r
      r2 == IF r1 > HalfPi THEN Pi - r1 ELSE r1
  IN sgn * SinSeries(r2)

Cos(x) ==
  LET r == x % TwoPi
      sgn == IF r >= Pi THEN -1 ELSE 1
      r1 == IF r >= Pi THEN r - Pi ELSE r
  IN IF r1 > HalfPi THEN (-sgn) * CosSeries(Pi - r1) ELSE sgn * CosSeries(r1)

\* math.tan never fails on a finite double; below the grid's resolution the
\* cosine counts as one unit
Tan(x) ==
  LET s == Sin(x)
      c == Cos(x)
  IN IF c = 0 THEN s * Scale
     ELSE Sign(s) * Sign(c) * ((Abs(s) * Scale) \div Abs(c))

\* round(x, decimals) on the grid: round half to even
RoundTo(x, unit) ==
  LET q == Abs(x) \div unit
      r == Abs(x) % unit
      up == \/ 2 * r > unit
            \/ (2 * r = unit /\ q % 2 = 1)
  IN Sign(x) * unit * (IF up THEN q + 1 ELSE q)

round_sig(x, sig) ==
  IF x = 0 THEN 0
  ELSE LET order == NumDigits(Abs(x)) - 1 - ScaleDigits
           decimals == sig - order - 1
       IN IF decimals >= ScaleDigits THEN x
          ELSE RoundTo(x, 10^(ScaleDigits - decimals))

\* the outcome of a call of tokenize: a value, or the exception it raises
Value(v) == [err |-> "ok", val |-> v]
Raise(e) == [err |-> e, val |-> 0]

\* one pass of the loop body of tokenize, position i (0-indexed), digits a, b
Term(i, a, b, seed) ==
  IF a = 0 \/ (seed = 0 /\ b > 0)
  THEN Value(0)                               \* tval == 0: val = 0, sin(0) = tan(0) = 0
  ELSE IF seed < 0 /\ b % 2 = 1
       THEN Raise("MathDomainError")          \* math.log of a negative number
       ELSE LET val == MantissaVal(a, seed, b)
            IN Value(IF i % 2 = 0 THEN Sin(val) ELSE Tan(val))

\* the loop of tokenize over positions i..Len(l1)-1, result so far in acc
RECURSIVE Accumulate(_, _, _, _, _)
Accumulate(l1, l2, seed, i, acc) ==
  IF i >= Len(l1) THEN Value(acc)
  ELSE LET t == Term(i, l1[i + 1], l2[i + 1], seed)
       IN IF t.err # "ok" THEN t
          ELSE Accumulate(l1, l2, seed, i + 1, acc + t.val)

\* tokenize with the length test in one direction only
tokenize_oneway(key1, key2, seed) ==
  LET l1 == Digits(key1)
      l2 == Digits(key2)
  IN IF Len(l1) < Len(l2) THEN Raise("LengthMismatch")
     ELSE IF Len(l1) > Len(l2) THEN Raise("IndexError")
     ELSE LET r == Accumulate(l1, l2, seed, 0, 0)
          IN IF r.err # "ok" THEN r
             ELSE Value(round_sig(r.val, KEY_LENGTH))


tokenize(key1, key2, seed) ==
  LET l1 == Digits(key1)
      l2 == Digits(key2)
  IN IF Len(l1) # Len(l2) THEN Raise("LengthMismatch")
     ELSE LET r == Accumulate(l1, l2, seed, 0, 0)
          IN IF r.err # "ok" THEN r
             ELSE Value(round_sig(r.val, KEY_LENGTH))

\* ------------------------------------------------------------ input sets
Identities == {"alice", "bob"}
\* the lower limit one below the first number of KEY_LENGTH digits
KeyLow_short == 10^(KEY_LENGTH - 1) - 1

KeyLow == 10^(KEY_LENGTH - 1)
KeyHigh == 10^KEY_LENGTH - 1
\* sample of random.randint(10**(KEY_LENGTH - 1), 10**KEY_LENGTH - 1)
Keys == {k \in {KeyLow + i * 1111 : i \in 0..MaxKeyIdx} : k <= KeyHigh}

\* UTC wall-clock instants in chronological order: two hours of one day, a
\* day whose seed is ten times that of another, the same days a month later
Instant(m, d, h) == [month |-> m, day |-> d, hour |-> h]
TimeLine ==
  << Instant(1, 1, 0), Instant(1, 1, 1), Instant(1, 10, 0), Instant(2, 1, 0),
     Instant(2, 1, 1), Instant(2, 10, 0), Instant(3, 1, 0) >>
Times == {TimeLine[i] : i \in 1..(IF MaxTimes < Len(TimeLine) THEN MaxTimes ELSE Len(TimeLine))}
Before(t1, t2) ==
  \/ t1.month < t2.month
  \/ t1.month = t2.month /\ t1.day < t2.day
  \/ t1.month = t2.month /\ t1.day = t2.day /\ t1.hour < t2.hour

time_seed(now, offset) == now.day * 100 + now.hour + offset

Seeds == {time_seed(t, 0) : t \in Times}

\* ------------------------------------------------------------------ state
VARIABLES
  users,      \* zk_server.users: identity -> ZKUser
  clock,      \* the UTC wall clock
  last,       \* the request served by the last step, and its response
  attempted,  \* identities whose record had a /verify request in the current clock hour
  first,      \* the secret the first /register of an identity returned
  issued,     \* the instant of the last successful /challenge of an identity
  scen,       \* progress of the register, challenge, verify, verify scenario
  threads,    \* the requests in progress in the worker threads
  owner,      \* the thread that created the ZKUser object users holds
  orphans,    \* ZKUser objects a later store replaced in users
  served,     \* number of requests handed to the worker threads
  memo        \* tokenize on the sample of keys and seeds, evaluated once

vars == <<users, clock, last, attempted, first, issued, scen, threads, owner, orphans,
          served, memo>>

\* tokenize on the sample, as a table
RECURSIVE Tabulate(_)
Tabulate(args) ==
  IF args = {} THEN <<>>
  ELSE LET a == CHOOSE x \in args : TRUE
       IN (a :> tokenize(a[1], a[2], a[3])) @@ Tabulate(args \ {a})

\* tokens a client may submit for an identity: the proofs of its record for
\* every seed (of the current seed for every pair of keys, when it has no
\* challenge), and one that is no proof
Tokens(u) ==
  {0} \cup
  IF u \in DOMAIN users /\ users[u].key2 # None
  THEN {memo[<<users[u].key1, users[u].key2[1], sd>>].val : sd \in Seeds}
  ELSE {memo[a].val : a \in {x \in DOMAIN memo : x[3] = time_seed(clock, 0)}}

\* tokenize applied to a stored challenge, which is None before the first
\* challenge: int(d) for d in str(None) raises on 'N'
tokenizeStored(key1, key2, seed) ==
  IF key2 = None THEN Raise("InvalidLiteral")
  ELSE IF <<key1, key2[1], seed>> \in DOMAIN memo
       THEN memo[<<key1, key2[1], seed>>]
       ELSE tokenize(key1, key2[1], seed)

\* ------------------------------------------------------- ZKUser, ZKServer
ZKUser(name, key1) ==
  [name |-> name, key1 |-> key1, key2 |-> None, stime |-> None, locked |-> FALSE]

\* get_challenge_key that re-opens the record
get_challenge_key_unlock(user, r, now) ==
  [user |-> [user EXCEPT !.key2 = Some(r), !.stime = Some(time_seed(now, 0)),
                         !.locked = FALSE],
   ret |-> r]

\* get_challenge_key that stamps the window of the first challenge only
get_challenge_key_firstwindow(user, r, now) ==
  [user |-> [user EXCEPT !.key2 = Some(r),
                         !.stime = IF user.stime = None
                                   THEN Some(time_seed(now, 0)) ELSE user.stime],
   ret |-> r]

\* r is the value random.randint returns
get_challenge_key(user, r, now) ==
  [user |-> [user EXCEPT !.key2 = Some(r), !.stime = Some(time_seed(now, 0))],
   ret |-> r]

\* the guard of ZKUser.verify
Rejects(user, now) == user.locked /\ user.stime = Some(time_seed(now, 0))

\* verify with the proof computed for the window of the challenge
verify_stale(user, token, now) ==
  IF Rejects(user, now)
  THEN [user |-> user, ret |-> "False"]
  ELSE LET proof == tokenizeStored(user.key1, user.key2,
                                   IF user.stime = None THEN time_seed(now, 0)
                                   ELSE user.stime[1])
       IN [user |-> [user EXCEPT !.locked = TRUE],
           ret |-> IF proof.err # "ok" THEN proof.err
                   ELSE IF proof.val = token THEN "True" ELSE "False"]

\* verify that leaves the lock alone
verify_nolock(user, token, now) ==
  IF Rejects(user, now)
  THEN [user |-> user, ret |-> "False"]
  ELSE LET proof == tokenizeStored(user.key1, user.key2, time_seed(now, 0))
       IN [user |-> user,
           ret |-> IF proof.err # "ok" THEN proof.err
                   ELSE IF proof.val = token THEN "True" ELSE "False"]

\* verify that locks the record after a failed attempt only
verify_lockfail(user, token, now) ==
  IF Rejects(user, now)
  THEN [user |-> user, ret |-> "False"]
  ELSE LET proof == tokenizeStored(user.key1, user.key2, time_seed(now, 0))
           ok == proof.err = "ok" /\ proof.val = token
       IN [user |-> [user EXCEPT !.locked = user.locked \/ ~ok],
           ret |-> IF proof.err # "ok" THEN proof.err
                   ELSE IF ok THEN "True" ELSE "False"]

\* ret is "True", "False", or the exception tokenize raises
verify(user, token, now) ==
  IF Rejects(user, now)
  THEN [user |-> user, ret |-> "False"]
  ELSE LET proof == tokenizeStored(user.key1, user.key2, time_seed(now, 0))
       IN [user |-> [user EXCEPT !.locked = TRUE],
           ret |-> IF proof.err # "ok" THEN proof.err
                   ELSE IF proof.val = token THEN "True" ELSE "False"]

\* register_user that generates a secret on every call
register_user_rotate(us, username, r) ==
  IF username \in DOMAIN us
  THEN [users |-> [us EXCEPT ![username].key1 = r], ret |-> r]
  ELSE [users |-> us @@ (username :> ZKUser(username, r)), ret |-> r]

register_user(us, username, r) ==
  IF username \in DOMAIN us
  THEN [users |-> us, ret |-> us[username].key1]
  ELSE [users |-> us @@ (username :> ZKUser(username, r)), ret |-> r]

\* issue_challenge that creates the record it does not find
issue_challenge_autoreg(us, username, r, now) ==
  LET base == IF username \in DOMAIN us THEN us
              ELSE us @@ (username :> ZKUser(username, r))
      g == get_challenge_key(base[username], r, now)
  IN [users |-> [base EXCEPT ![username] = g.user], ret |-> Some(g.ret)]

\* issue_challenge that starts from a fresh record with the same secret
issue_challenge_recreate(us, username, r, now) ==
  IF username \notin DOMAIN us
  THEN [users |-> us, ret |-> None]
  ELSE LET g == get_challenge_key(ZKUser(username, us[username].key1), r, now)
       IN [users |-> [us EXCEPT ![username] = g.user], ret |-> Some(g.ret)]

issue_challenge(us, username, r, now) ==
  IF username \notin DOMAIN us
  THEN [users |-> us, ret |-> None]
  ELSE LET g == get_challenge_key(us[username], r, now)
       IN [users |-> [us EXCEPT ![username] = g.user], ret |-> Some(g.ret)]

verify_token(us, username, token, now) ==
  IF username \notin DOMAIN us
  THEN [users |-> us, ret |-> "False"]
  ELSE LET v == verify(us[username], token, now)
       IN [users |-> [us EXCEPT ![username] = v.user], ret |-> v.ret]

NoCall ==
  [op |-> "none", user |-> "", http |-> 0, ret |-> "", key |-> 0, seed |-> 0,
   key2 |-> 0, val |-> 0,
   registered |-> FALSE, challenged |-> FALSE, rejected |-> FALSE,
   repeat |-> FALSE, match |-> FALSE, stale |-> FALSE]

\* the worker threads of the thread pool that runs the route functions, and
\* the identity their requests name (the races are races on one record)
Threads == {1, 2}
Contended == {"alice"}

Idle ==
  [pc |-> "idle", op |-> "none", user |-> "", token |-> 0, obj |-> 0,
   ret |-> "", http |-> 0, key |-> 0, seed |-> 0,
   passed |-> FALSE, inWindow |-> FALSE, wseed |-> None, reads |-> ""]

Init ==
  /\ users = <<>>
  /\ clock \in Times
  /\ last = NoCall
  /\ attempted = [u \in Identities |-> FALSE]
  /\ first = [u \in Identities |-> None]
  /\ issued = [u \in Identities |-> None]
  /\ scen = "start"
  /\ threads = [t \in Threads |-> Idle]
  /\ owner = <<>>
  /\ orphans = <<>>
  /\ served = 0
  /\ memo = Tabulate(Keys \X Keys \X Seeds)

\* the scenario register(u), issueChallenge(u), verifyToken(u, P),
\* verifyToken(u, P) from the empty server: a request that is not its next
\* step ends it ("off"); a step with the wrong result is kept ("v1bad", "v2bad")
Step(u, from, to) ==
  IF scen \in {"v1bad", "v2bad"} THEN scen
  ELSE IF scen = from /\ (from = "start" \/ last.user = u) THEN to
  ELSE "off"

\* POST /register
post_register(u) ==
  \E r \in Keys :
    LET res == register_user(users, u, r)
    IN /\ users' = res.users
       /\ last' = [NoCall EXCEPT !.op = "register", !.user = u, !.http = 200,
                                 !.ret = "ok", !.key = res.ret,
                                 !.registered = u \in DOMAIN users]
       /\ first' = IF first[u] = None THEN [first EXCEPT ![u] = Some(res.ret)]
                   ELSE first
       /\ scen' = Step(u, "start", "reg")
       /\ UNCHANGED <<clock, attempted, issued, threads, owner, orphans, served, memo>>

\* POST /challenge
post_challenge(u) ==
  \E r \in Keys :
    LET res == issue_challenge(users, u, r, clock)
    IN /\ users' = res.users
       /\ last' = IF res.ret = None
                  THEN [NoCall EXCEPT !.op = "challenge", !.user = u,
                                      !.http = 404, !.ret = "None",
                                      !.registered = u \in DOMAIN users]
                  ELSE [NoCall EXCEPT !.op = "challenge", !.user = u,
                                      !.http = 200, !.ret = "ok",
                                      !.key = res.ret[1],
                                      !.seed = time_seed(clock, 0),
                                      !.registered = u \in DOMAIN users]
       /\ issued' = IF res.ret = None THEN issued
                    ELSE [issued EXCEPT ![u] = Some(clock)]
       /\ scen' = Step(u, "reg", "chal")
       /\ UNCHANGED <<clock, attempted, first, threads, owner, orphans, served, memo>>

\* POST /verify
post_verify(u, token) ==
  LET res == verify_token(users, u, token, clock)
      reg == u \in DOMAIN users
      expected == IF reg
                  THEN tokenizeStored(users[u].key1, users[u].key2, time_seed(clock, 0))
                  ELSE Raise("NoRecord")
      \* the proof for the challenge and the window /challenge returned
      echoed == IF reg /\ users[u].key2 # None
                THEN tokenizeStored(users[u].key1, users[u].key2, users[u].stime[1])
                ELSE Raise("NoChallenge")
      isProof == echoed.err = "ok" /\ token = echoed.val
  IN /\ users' = res.users
     /\ last' = [NoCall EXCEPT
                   !.op = "verify", !.user = u, !.ret = res.ret,
                   !.http = IF res.ret = "True" THEN 200
                            ELSE IF res.ret = "False" THEN 401 ELSE 500,
                   !.registered = reg,
                   !.challenged = reg /\ users[u].key2 # None,
                   !.rejected = /\ reg
                                /\ users[u].locked
                                /\ users[u].stime = Some(time_seed(clock, 0)),
                   !.repeat = attempted[u],
                   !.match = expected.err = "ok" /\ token = expected.val,
                   !.stale = isProof /\ issued[u] # Some(clock)]
     /\ attempted' = IF reg THEN [attempted EXCEPT ![u] = TRUE] ELSE attempted
     /\ scen' = IF ~isProof THEN Step(u, "none", "off")
                ELSE IF scen = "chal"
                THEN Step(u, "chal", IF res.ret = "True" THEN "v1ok" ELSE "v1bad")
                ELSE Step(u, "v1ok", IF res.ret = "False" THEN "v2ok" ELSE "v2bad")
     /\ UNCHANGED <<clock, first, issued, threads, owner, orphans, served, memo>>

\* time passes between two requests
Tick ==
  \E t \in Times :
    /\ Before(clock, t)
    /\ clock' = t
    /\ attempted' = [u \in Identities |-> FALSE]
    /\ scen' = IF scen \in {"chal", "v1ok", "v2ok"} THEN "off" ELSE scen
    /\ last' = NoCall
    /\ threads' = [th \in Threads |-> [threads[th] EXCEPT !.inWindow = FALSE]]
    /\ UNCHANGED <<users, first, issued, owner, orphans, served, memo>>

Next ==
  \/ \E u \in Identities : post_register(u)
  \/ \E u \in Identities : post_challenge(u)
  \/ \E u \in Identities : \E token \in Tokens(u) : post_verify(u, token)
  \/ Tick

Spec == Init /\ [][Next]_vars

\* ------------------------------------------------- POST /calculate-tokenized
\* keys and seeds a caller may post: keys of one, two, three and KEY_LENGTH
\* digits, seeds of either sign and zero
CalcKeys == {7, 12, 34, 123} \cup Keys
CalcSeeds == (-MaxCalcSeed)..MaxCalcSeed

\* the route catches ValueError and answers {"error": ...}; a value is
\* rendered as the result
post_calculate_tokenized(key1, key2, seed) ==
  LET res == tokenize(key1, key2, seed)
  IN /\ last' = [NoCall EXCEPT !.op = "calculate", !.http = 200, !.ret = res.err,
                               !.key = key1, !.key2 = key2, !.seed = seed,
                               !.val = res.val]
     /\ UNCHANGED <<users, clock, attempted, first, issued, scen, threads, owner,
                    orphans, served, memo>>

CalcNext ==
  \E key1 \in CalcKeys, key2 \in CalcKeys, seed \in CalcSeeds :
    post_calculate_tokenized(key1, key2, seed)

CalcSpec == Init /\ [][CalcNext]_vars

\* ------------------------------------------- the routes, statement by statement
\* The routes are plain functions, which the framework runs in a thread pool:
\* requests interleave between any two statements below.

\* the ZKUser object a thread holds a reference to
Deref(u, id) == IF owner[u] = id THEN users[u] ELSE orphans[<<u, id>>]

\* dict assignment self.users[u] = rec
Put(f, k, v) == [x \in DOMAIN f \cup {k} |-> IF x = k THEN v ELSE f[x]]

Goto(t, rec) == threads' = [threads EXCEPT ![t] = rec]

\* tokens of a request that races with others: the proof of the record at
\* the time the request is made, and one that is no proof
CurrentTokens(u) ==
  {0} \cup
  IF u \in DOMAIN users /\ users[u].key2 # None
  THEN {memo[<<users[u].key1, users[u].key2[1], time_seed(clock, 0)>>].val}
  ELSE {}

\* a request arrives and a free worker thread takes it
Start(t) ==
  /\ threads[t].pc \in {"idle", "done"}
  /\ served < MaxRequests
  /\ served' = served + 1
  /\ \E u \in Contended :
       \/ Goto(t, [Idle EXCEPT !.pc = "reg_check", !.op = "register", !.user = u])
       \/ Goto(t, [Idle EXCEPT !.pc = "chal_check", !.op = "challenge", !.user = u])
       \/ \E token \in CurrentTokens(u) :
            Goto(t, [Idle EXCEPT !.pc = "ver_check", !.op = "verify", !.user = u,
                                 !.token = token])
  /\ UNCHANGED <<users, clock, last, attempted, first, issued, scen, owner, orphans, memo>>

\* register_user: if username in self.users: return self.users[username].key1
RegCheck(t) ==
  LET c == threads[t] IN
  /\ c.pc = "reg_check"
  /\ IF c.user \in DOMAIN users
     THEN Goto(t, [c EXCEPT !.pc = "done", !.http = 200, !.ret = "ok",
                            !.key = users[c.user].key1])
     ELSE Goto(t, [c EXCEPT !.pc = "reg_store"])
  /\ UNCHANGED <<users, clock, last, attempted, first, issued, scen, owner, orphans,
                 served, memo>>

\* register_user: key1 = randint(...); self.users[username] = ZKUser(...)
RegStore(t) ==
  LET c == threads[t] IN
  /\ c.pc = "reg_store"
  /\ \E r \in Keys :
       /\ users' = Put(users, c.user, ZKUser(c.user, r))
       /\ Goto(t, [c EXCEPT !.pc = "done", !.http = 200, !.ret = "ok", !.key = r])
  /\ owner' = Put(owner, c.user, t)
  /\ orphans' = IF c.user \in DOMAIN users
                THEN Put(orphans, <<c.user, owner[c.user]>>, users[c.user])
                ELSE orphans
  /\ UNCHANGED <<clock, last, attempted, first, issued, scen, served, memo>>

\* write a field of the object a thread refers to
Assign(c, rec) ==
  IF owner[c.user] = c.obj
  THEN /\ users' = [users EXCEPT ![c.user] = rec]
       /\ UNCHANGED orphans
  ELSE /\ orphans' = [orphans EXCEPT ![<<c.user, c.obj>>] = rec]
       /\ UNCHANGED users

\* issue_challenge: if username not in self.users: return None; the route
\* raises 404
ChalCheck(t) ==
  LET c == threads[t] IN
  /\ c.pc = "chal_check"
  /\ IF c.user \notin DOMAIN users
     THEN Goto(t, [c EXCEPT !.pc = "done", !.http = 404, !.ret = "None"])
     ELSE Goto(t, [c EXCEPT !.pc = "chal_key", !.obj = owner[c.user]])
  /\ UNCHANGED <<users, clock, last, attempted, first, issued, scen, owner, orphans,
                 served, memo>>

\* get_challenge_key: self.key2 = random.randint(...)
ChalKey(t) ==
  LET c == threads[t] IN
  /\ c.pc = "chal_key"
  /\ \E r \in Keys : Assign(c, [Deref(c.user, c.obj) EXCEPT !.key2 = Some(r)])
  /\ Goto(t, [c EXCEPT !.pc = "chal_stime"])
  /\ UNCHANGED <<clock, last, attempted, first, issued, scen, owner, served, memo>>

\* get_challenge_key: self.stime = time_seed()
ChalStime(t) ==
  LET c == threads[t] IN
  /\ c.pc = "chal_stime"
  /\ Assign(c, [Deref(c.user, c.obj) EXCEPT !.stime = Some(time_seed(clock, 0))])
  /\ Goto(t, [c EXCEPT !.pc = "chal_ret", !.wseed = Some(time_seed(clock, 0))])
  /\ UNCHANGED <<clock, last, attempted, first, issued, scen, owner, served, memo>>

\* get_challenge_key: return self.key2
ChalRet(t) ==
  LET c == threads[t] IN
  /\ c.pc = "chal_ret"
  /\ Goto(t, [c EXCEPT !.pc = "chal_seed", !.key = Deref(c.user, c.obj).key2[1]])
  /\ UNCHANGED <<users, clock, last, attempted, first, issued, scen, owner, orphans,
                 served, memo>>

\* the route: return {"username": ..., "key2": key2, "seed": time_seed()}
ChalSeed(t) ==
  LET c == threads[t] IN
  /\ c.pc = "chal_seed"
  /\ Goto(t, [c EXCEPT !.pc = "done", !.http = 200, !.ret = "ok",
                        !.seed = time_seed(clock, 0), !.wseed = None,
                        !.reads = IF c.wseed = Some(time_seed(clock, 0))
                                  THEN "same" ELSE "differ"])
  /\ UNCHANGED <<users, clock, last, attempted, first, issued, scen, owner, orphans,
                 served, memo>>

\* verify_token: if username not in self.users: return False; the route
\* raises 401
VerCheck(t) ==
  LET c == threads[t] IN
  /\ c.pc = "ver_check"
  /\ IF c.user \notin DOMAIN users
     THEN Goto(t, [c EXCEPT !.pc = "done", !.http = 401, !.ret = "False", !.token = 0])
     ELSE Goto(t, [c EXCEPT !.pc = "ver_guard", !.obj = owner[c.user]])
  /\ UNCHANGED <<users, clock, last, attempted, first, issued, scen, owner, orphans,
                 served, memo>>

\* verify: if self.locked and self.stime == time_seed(): return False
\* (the clock is read only when locked is true)
VerGuard(t) ==
  LET c == threads[t]
      user == Deref(c.user, c.obj)
      c1 == [c EXCEPT !.inWindow = user.stime = Some(time_seed(clock, 0)),
                      !.wseed = IF user.locked THEN Some(time_seed(clock, 0))
                                ELSE None]
  IN
  /\ c.pc = "ver_guard"
  /\ IF Rejects(user, clock)
     THEN Goto(t, [c1 EXCEPT !.pc = "done", !.http = 401, !.ret = "False", !.token = 0,
                             !.wseed = None])
     ELSE Goto(t, [c1 EXCEPT !.pc = "ver_lock", !.passed = TRUE])
  /\ UNCHANGED <<users, clock, last, attempted, first, issued, scen, owner, orphans,
                 served, memo>>

\* verify: self.locked = True
VerLock(t) ==
  LET c == threads[t] IN
  /\ c.pc = "ver_lock"
  /\ Assign(c, [Deref(c.user, c.obj) EXCEPT !.locked = TRUE])
  /\ Goto(t, [c EXCEPT !.pc = "ver_proof"])
  /\ UNCHANGED <<clock, last, attempted, first, issued, scen, owner, served, memo>>

\* verify: proof = tokenize(self.key1, self.key2, time_seed());
\* return proof == token; the route raises 401 on False
VerProof(t) ==
  LET c == threads[t]
      user == Deref(c.user, c.obj)
      proof == tokenizeStored(user.key1, user.key2, time_seed(clock, 0))
      ret == IF proof.err # "ok" THEN proof.err
             ELSE IF proof.val = c.token THEN "True" ELSE "False"
  IN
  /\ c.pc = "ver_proof"
  /\ Goto(t, [c EXCEPT !.pc = "done", !.ret = ret, !.token = 0,
                        !.http = IF ret = "True" THEN 200
                                 ELSE IF ret = "False" THEN 401 ELSE 500,
                        !.wseed = None,
                        !.reads = IF c.wseed = None THEN ""
                                  ELSE IF c.wseed = Some(time_seed(clock, 0))
                                  THEN "same" ELSE "differ"])
  /\ UNCHANGED <<users, clock, last, attempted, first, issued, scen, owner, orphans,
                 served, memo>>

ThreadNext ==
  \/ \E t \in Threads : Start(t)
  \/ \E t \in Threads : RegCheck(t)
  \/ \E t \in Threads : RegStore(t)
  \/ \E t \in Threads : ChalCheck(t)
  \/ \E t \in Threads : ChalKey(t)
  \/ \E t \in Threads : ChalStime(t)
  \/ \E t \in Threads : ChalRet(t)
  \/ \E t \in Threads : ChalSeed(t)
  \/ \E t \in Threads : VerCheck(t)
  \/ \E t \in Threads : VerGuard(t)
  \/ \E t \in Threads : VerLock(t)
  \/ \E t \in Threads : VerProof(t)
  \/ Tick

ThreadSpec == Init /\ [][ThreadNext]_vars

\* ------------------------------------------------------------------ claims

\* C1: once a verifyToken call for an identity was made in the current window,
\* every later verifyToken call for it in that window returns false (stated
\* for records that have a challenge, issued in this window or an earlier one)
C1_SecondVerifyInWindowFails ==
  (last.op = "verify" /\ last.challenged /\ last.repeat) => last.ret = "False"

\* C2 as claimed: on a record with a challenge, verifyToken returns true if and
\* only if the submitted value equals derive(secret, challenge, timeWindow(0))
C2_TrueIffMatch ==
  (last.op = "verify" /\ last.challenged) => (last.ret = "True" <=> last.match)

\* C2 as amended: on a record with a challenge, verifyToken returns true if and
\* only if the call is not rejected by the lock guard (locked, and the current
\* window equal to the challenge window) and the submitted value equals
\* derive(secret, challenge, timeWindow(0)) at the time of the call
C2_TrueIffProcessedAndMatch ==
  (last.op = "verify" /\ last.challenged) =>
    (last.ret = "True" <=> (~last.rejected /\ last.match))

C2_Witness ==
  last.op = "verify" /\ last.challenged /\ last.rejected /\ last.match

\* C3: from the empty server, register(u), issueChallenge(u), then
\* verifyToken(u, derive(S, C, W)) in the same window returns true and a second
\* verifyToken(u, derive(S, C, W)) in that window returns false
C3_EndToEnd == scen \notin {"v1bad", "v2bad"}

C3_Witness == scen = "v2ok"

\* C4: every register of an identity returns the secret the first one
\* returned, the record's secret stays that value whatever requests follow,
\* and a repeated register leaves the record as it is
C4_RegisterIdempotent ==
  /\ [](/\ \A u \in DOMAIN users : first[u] = Some(users[u].key1)
        /\ (last.op = "register" => first[last.user] = Some(last.key)))
  /\ [][(last'.op = "register" /\ last'.registered) => users' = users]_vars

C4_Witness ==
  /\ last.op = "register" /\ last.registered
  /\ users[last.user].key2 # None /\ users[last.user].locked

\* the verifyToken calls for u that passed the guard in the current window
\* while the challenge of the record was issued in that window
PassedInWindow(u) ==
  {t \in Threads : /\ threads[t].op = "verify" /\ threads[t].user = u
                   /\ threads[t].passed /\ threads[t].inWindow}

\* C5: of the verifyToken calls for one identity whose guard ran in the
\* current window, with the challenge issued in that window, at most one
\* passes the guard and is compared with the expected proof
C5_OneAttemptPerWindow ==
  \A u \in Identities : Cardinality(PassedInWindow(u)) <= 1

\* C6: every register call for an identity returns the secret that the stored
\* record holds, and a record in users has all its fields initialised
C6_RegisterRace ==
  /\ \A t \in Threads :
       (threads[t].op = "register" /\ threads[t].pc = "done") =>
         threads[t].key = users[threads[t].user].key1
  /\ \A u \in DOMAIN users :
       /\ users[u].key1 \in Keys
       /\ users[u].locked \in BOOLEAN
       /\ users[u].key2 \in {None} \cup {Some(k) : k \in Keys}

\* C7: issueChallenge for an identity without a record answers None (the route:
\* 404), creates no record and leaves every record unchanged
C7_UnknownChallenge ==
  [][(last'.op = "challenge" /\ ~last'.registered) =>
       (last'.ret = "None" /\ last'.http = 404 /\ users' = users)]_vars

C7_Witness ==
  last.op = "challenge" /\ ~last.registered /\ last.http = 404 /\ users # <<>>

\* C8: a verifyToken with a wrong proof has one outcome, the authentication
\* failure (False, 401), whether the identity is registered or not and whatever
\* state its record is in
C8_FailureIndistinguishable ==
  (last.op = "verify" /\ ~last.match) => (last.ret = "False" /\ last.http = 401)

\* C9: verifyToken returns true or false in every state, also for a
\* registered identity that has no challenge yet
C9_VerifyReturnsBoolean ==
  last.op = "verify" => last.ret \in {"True", "False"}

\* C10: the proof derive(S, C, W) for the challenge and window issueChallenge
\* returned is refused once the clock is in another hour than at issuance
C10_StaleProofFails ==
  (last.op = "verify" /\ last.stale) => last.ret = "False"

\* C11: two invocations of timeWindow, at the issuance of the challenge and
\* now, return equal values if and only if they occur at the same instant
\* (the same UTC hour of the same calendar date)
C11_SeedEqualIffSameHour ==
  \A u \in DOMAIN users :
    users[u].stime # None =>
      (users[u].stime = Some(time_seed(clock, 0)) <=> issued[u] = Some(clock))

\* C12: for non-negative keys and every seed, derive fails with LengthMismatch
\* exactly when the decimal digit counts of the keys differ, and the failure
\* reaches the caller (no value is returned in its place)
C12_LengthMismatch ==
  last.op = "calculate" =>
    /\ last.ret = "LengthMismatch" <=> NumDigits(last.key) # NumDigits(last.key2)
    /\ last.ret = "LengthMismatch" => last.val = 0

C12_Witness ==
  /\ last.op = "calculate" /\ last.ret = "LengthMismatch"
  /\ last.key = 12 /\ last.key2 = 123

\* C13: a new record is unlocked; every verifyToken call that passes the guard
\* leaves locked true, whatever it returns; and a locked record stays locked
\* (and stays in the table) through every later register, issueChallenge and
\* verifyToken call
C13_LockMonotone ==
  [][/\ \A u \in DOMAIN users' \ DOMAIN users : ~users'[u].locked
     /\ \A u \in DOMAIN users :
          u \in DOMAIN users' /\ (users[u].locked => users'[u].locked)
     /\ (last'.op = "verify" /\ last'.registered /\ ~last'.rejected)
          => users'[last'.user].locked]_vars

C13_Witness ==
  /\ last.op = "register" /\ last.registered
  /\ users[last.user].locked
  /\ users[last.user].key2 # None

\* C14: a successful issueChallenge(u) leaves the set of records, the name,
\* secret and locked flag of u's record and every other record unchanged
C14_ChallengeFrame ==
  [][(last'.op = "challenge" /\ last'.http = 200) =>
       LET u == last'.user
       IN /\ DOMAIN users' = DOMAIN users
          /\ users'[u].name = users[u].name
          /\ users'[u].key1 = users[u].key1
          /\ users'[u].locked = users[u].locked
          /\ \A v \in DOMAIN users \ {u} : users'[v] = users[v]]_vars

C14_Witness ==
  /\ last.op = "challenge" /\ last.http = 200
  /\ users[last.user].locked
  /\ \E v \in DOMAIN users \ {last.user} : users[v].key2 # None /\ users[v].locked

\* C15: verifyToken on a registered record is rejected exactly when locked is
\* true and the current window equals challengeWindow; a rejected call returns
\* false and changes nothing; every other call returns the comparison of the
\* token with the expected proof and changes no field but locked, which it
\* sets
C15_GuardPolicy ==
  [][(last'.op = "verify" /\ last'.registered) =>
       LET u == last'.user
           guard == users[u].locked /\ users[u].stime = Some(time_seed(clock, 0))
       IN IF guard
          THEN last'.ret = "False" /\ users' = users
          ELSE /\ last'.ret = (IF last'.match THEN "True" ELSE "False")
               /\ users' = [users EXCEPT ![u].locked = TRUE]]_vars

\* C16: once an attempt for u has been made (one in this window, or one that
\* left the record locked), a verifyToken(u, p) made in the instant of the
\* last issueChallenge(u) returns false and changes nothing, also for the
\* correct proof of the new challenge; such a record accepts a proof only
\* when the current window differs from challengeWindow
C16_ChallengeDoesNotReopen ==
  [][(/\ last'.op = "verify" /\ last'.registered
      /\ (users[last'.user].locked \/ attempted[last'.user])) =>
       LET u == last'.user
       IN /\ issued[u] = Some(clock) => (last'.ret = "False" /\ users' = users)
          /\ last'.ret = "True" => users[u].stime # Some(time_seed(clock, 0))]_vars

C16_Witness ==
  /\ last.op = "verify" /\ last.ret = "False"
  /\ last.rejected /\ last.match /\ ~last.repeat
  /\ issued[last.user] = Some(clock)

C18_OneWindowPerCall ==
  \A t \in Threads :
    threads[t].pc = "done" =>
      /\ (threads[t].op = "challenge" /\ threads[t].http = 200)
           => threads[t].reads = "same"
      /\ threads[t].op = "verify" => threads[t].reads # "differ"

\* C19: every secret and every challenge that is set is an integer of exactly
\* KEY_LENGTH decimal digits, in 10^(KEY_LENGTH-1) .. 10^KEY_LENGTH - 1, and
\* verifyToken on a record with a challenge never ends in LengthMismatch
C19_KeyRange ==
  /\ \A u \in DOMAIN users :
       \A k \in {users[u].key1} \cup
                 (IF users[u].key2 = None THEN {} ELSE {users[u].key2[1]}) :
         /\ k \in Int
         /\ 10^(KEY_LENGTH - 1) <= k /\ k <= 10^KEY_LENGTH - 1
         /\ Len(Digits(k)) = KEY_LENGTH
  /\ (last.op = "verify" /\ last.challenged) => last.ret # "LengthMismatch"

C19_Witness ==
  /\ last.op = "verify" /\ last.challenged /\ ~last.rejected
  /\ users[last.user].key1 # users[last.user].key2[1]
  /\ \E v \in DOMAIN users \ {last.user} : users[v].key2 = None

\* C20: for keys of equal digit length and every integer seed, positive, zero
\* or negative, derive returns a value and raises no error
C20_NoErrorForAnySeed ==
  (last.op = "calculate" /\ NumDigits(last.key) = NumDigits(last.key2)) =>
    last.ret = "ok"

====
